---- MODULE Spec2Model ----
(***************************************************************************)
(* Model of src/app.py, the Streamlit dashboard script.                    *)
(*                                                                         *)
(* One process hosts the script.  Every user interaction re-executes the   *)
(* script from its first line to its last (a render cycle).  The only      *)
(* state that survives a cycle is the st.cache_data entry of load_data and *)
(* the value of the sidebar radio widget.  The storage file                *)
(* netflix_clean.csv belongs to the environment.                           *)
(*                                                                         *)
(* Render cycles are taken one at a time.  A cycle is split into steps at  *)
(* the places where the script can raise:                                  *)
(* load_data (line 27), st.dataframe (line 47) and the three chart blocks  *)
(* (lines 56-58, 64-66, 72-75).  Calls whose arguments are literals only   *)
(* (header, metric, markdown, write, info, table) are taken not to raise.  *)
(* Clearing the cache from outside the script is not modelled.             *)
(***************************************************************************)
EXTENDS Integers, Sequences, FiniteSets, TLC

VARIABLES
    file,      \* contents of netflix_clean.csv (environment)
    cache,     \* st.cache_data store of load_data: {} or {table}
    nav,       \* value of the sidebar radio widget (session state)
    pc,        \* position of the script in the current render cycle
    df,        \* module global df (line 27), Unbound before assignment
    page,      \* module global page (line 31), NoPage before assignment
    exc,       \* exception travelling to the except clause, NoExc if none
    out,       \* elements emitted to the output surface in this cycle
    ran,       \* history: page branches entered in this cycle
    reads,     \* history: number of times pd.read_csv was called
    scans,     \* history: number of those calls that found a file to parse
    parses,    \* history: number of times pd.read_csv returned a table
    first,     \* history: table returned by the first successful load_data
    cycles     \* history: number of render cycles started

vars == <<file, cache, nav, pc, df, page, exc, out, ran, reads, scans, parses, first, cycles>>

-----------------------------------------------------------------------------
(* Bounds of the model *)

MaxRows == 11
MaxCycles == 3

-----------------------------------------------------------------------------
(* Literals of the script *)

Pages ==
    <<"Overview", "Exploratory Analysis", "Content Clustering",
      "Duration Prediction", "Strategic Recommendations">>

PageIds == {Pages[i] : i \in 1..Len(Pages)}

TotalTitles == 8706
MovieCount == 6128
ShowCount == 2578
PreviewRows == 10
R2Score == "0.1407"
MeanSquaredError == "2264.50"

TypeSplit == << <<"TV Show", 2578>>, <<"Movie", 6128>> >>

GenreData ==
    << <<"International Movies", 2752>>, <<"Dramas", 2427>>,
       <<"Comedies", 1674>>, <<"International TV Shows", 1328>>,
       <<"Documentaries", 869>>, <<"Action & Adventure", 859>>,
       <<"Independent Movies", 756>>, <<"TV Dramas", 739>>,
       <<"Children & Family Movies", 641>>, <<"Romantic Movies", 616>> >>

ReleaseData ==
    << <<2010, 189>>, <<2012, 229>>, <<2014, 343>>, <<2015, 548>>,
       <<2016, 878>>, <<2017, 1015>>, <<2018, 1140>>, <<2019, 1030>>,
       <<2020, 953>> >>

\* A dict is a sequence of <<key, value>> pairs in insertion order.
cluster_summary ==
    << <<"Cluster 0", << <<"Year", 2014>>, <<"Duration", "106 min">>,
                         <<"Type", "Movie">>, <<"Segment", "Mainstream Movies">> >> >>,
       <<"Cluster 1", << <<"Year", 2016>>, <<"Duration", "90 min">>,
                         <<"Type", "Movie">>, <<"Segment", "Recent Indie/Short Films">> >> >>,
       <<"Cluster 2", << <<"Year", 2017>>, <<"Duration", "1.7 Seasons">>,
                         <<"Type", "TV Show">>, <<"Segment", "Modern Episodic Content">> >> >>,
       <<"Cluster 3", << <<"Year", 1985>>, <<"Duration", "112 min">>,
                         <<"Type", "Movie">>, <<"Segment", "Classic Library Content">> >> >> >>

-----------------------------------------------------------------------------
(* Values *)

Unbound == [unbound |-> TRUE]
NoPage == "<unbound>"
NoExc == "<none>"

ColumnSets ==
    { {"type", "listed_in", "release_year", "duration", "rating"},
      {"type", "listed_in", "release_year", "duration", "rating", "title"} }

\* A parsed table: its column set and its rows (a row is abstracted to its id).
Table(n, cols) == [columns |-> cols, rows |-> [i \in 1..n |-> i]]

\* Row counts of the stored tables: none, and around the preview length.
RowCounts == {0} \cup ((PreviewRows - 1)..MaxRows)

Tables == {Table(n, cols) : n \in RowCounts, cols \in ColumnSets}

NoTable == Table(0, {})

MissingFile == [status |-> "missing", table |-> NoTable]
MalformedFile == [status |-> "malformed", table |-> NoTable]
OkFile(t) == [status |-> "ok", table |-> t]

FileStates == {MissingFile, MalformedFile} \cup {OkFile(t) : t \in Tables}

\* An emitted element: the block of the script that emitted it, the
\* Streamlit call, and the call's argument.
Elem(by, kind, arg) == [by |-> by, kind |-> kind, arg |-> arg]

Min(a, b) == IF a < b THEN a ELSE b

-----------------------------------------------------------------------------
(* Pure parts of the script *)

\* pd.read_csv('netflix_clean.csv'): the parsed table, or the exception.
read_csv(f) ==
    CASE f.status = "missing"   -> [raised |-> "FileNotFoundError", value |-> NoTable]
      [] f.status = "malformed" -> [raised |-> "ParserError", value |-> NoTable]
      [] OTHER                  -> [raised |-> NoExc, value |-> f.table]

\* load_data without the memo: the body runs on every call.
load_data_uncached(c, f) ==
    LET r == read_csv(f)
    IN  [raised |-> r.raised, value |-> r.value,
         cache |-> IF r.raised = NoExc THEN {r.value} ELSE c,
         read |-> TRUE]

\* load_data with a memo that is refreshed when the stored table no longer
\* matches a readable file.
load_data_refresh(c, f) ==
    IF c # {} /\ (f.status # "ok" \/ f.table \in c)
    THEN [raised |-> NoExc, value |-> CHOOSE t \in c : TRUE, cache |-> c, read |-> FALSE]
    ELSE LET r == read_csv(f)
         IN  [raised |-> r.raised, value |-> r.value,
              cache |-> IF r.raised = NoExc THEN {r.value} ELSE {},
              read |-> TRUE]

\* @st.cache_data def load_data(): a hit returns the stored table without
\* calling the body; a miss calls the body and stores its result; an
\* exception of the body is not stored.
load_data(c, f) ==
    IF c # {}
    THEN [raised |-> NoExc, value |-> CHOOSE t \in c : TRUE, cache |-> c, read |-> FALSE]
    ELSE LET r == read_csv(f)
         IN  [raised |-> r.raised, value |-> r.value,
              cache |-> IF r.raised = NoExc THEN {r.value} ELSE {},
              read |-> TRUE]

\* df.head(n): a new table of the first n rows; df is not changed.
head(t, n) == [columns |-> t.columns, rows |-> SubSeq(t.rows, 1, Min(n, Len(t.rows)))]

\* Keys of a dict, in insertion order.
Keys(d) == [i \in 1..Len(d) |-> d[i][1]]

\* d[k] for a key k of the dict d.
Get(d, k) == d[CHOOSE i \in 1..Len(d) : d[i][1] = k][2]

\* pd.DataFrame(d) for a dict of dicts d with equal inner keys: the outer
\* keys become the columns, the inner keys the index.
DataFrame(d) ==
    LET cols == Keys(d)
        idx == Keys(d[1][2])
    IN  [index |-> idx,
         columns |-> cols,
         data |-> [r \in 1..Len(idx) |-> [c \in 1..Len(cols) |-> Get(Get(d, cols[c]), idx[r])]]]

\* DataFrame.T: index and columns change places.
Transpose(f) ==
    [index |-> f.columns,
     columns |-> f.index,
     data |-> [r \in 1..Len(f.columns) |-> [c \in 1..Len(f.index) |-> f.data[c][r]]]]

\* The frame of line 95 without the transpose.
ClusterTableUntransposed == DataFrame(cluster_summary)

\* Line 95: the frame handed to st.table.
ClusterTable == Transpose(DataFrame(cluster_summary))

\* The chain with its last test replaced by a plain else.
BranchTrailingElse(p) ==
    IF p = "Overview" THEN "Overview"
    ELSE IF p = "Exploratory Analysis" THEN "Exploratory Analysis"
    ELSE IF p = "Content Clustering" THEN "Content Clustering"
    ELSE IF p = "Duration Prediction" THEN "Duration Prediction"
    ELSE "Strategic Recommendations"

\* The chain with the bodies of two branches exchanged.
BranchExchanged(p) ==
    IF p = "Overview" THEN "Overview"
    ELSE IF p = "Exploratory Analysis" THEN "Content Clustering"
    ELSE IF p = "Content Clustering" THEN "Exploratory Analysis"
    ELSE IF p = "Duration Prediction" THEN "Duration Prediction"
    ELSE IF p = "Strategic Recommendations" THEN "Strategic Recommendations"
    ELSE "<no branch>"

\* The if/elif chain of lines 33-120: the branch that a value of page selects.
Branch(p) ==
    IF p = "Overview" THEN "Overview"
    ELSE IF p = "Exploratory Analysis" THEN "Exploratory Analysis"
    ELSE IF p = "Content Clustering" THEN "Content Clustering"
    ELSE IF p = "Duration Prediction" THEN "Duration Prediction"
    ELSE IF p = "Strategic Recommendations" THEN "Strategic Recommendations"
    ELSE "<no branch>"

\* A handler that matches FileNotFoundError only.
IsFileNotFound(e) == e = "FileNotFoundError"

\* Line 141: except Exception matches every exception the try block raises
\* here (OSError, pandas.errors.ParserError and the rendering errors all
\* derive from Exception).
IsException(e) == e \in {"FileNotFoundError", "ParserError", "RenderError"}

-----------------------------------------------------------------------------
Init ==
    /\ file \in FileStates
    /\ cache = {}
    /\ nav = Pages[1]
    /\ pc = "idle"
    /\ df = Unbound
    /\ page = NoPage
    /\ exc = NoExc
    /\ out = <<>>
    /\ ran = {}
    /\ reads = 0
    /\ scans = 0
    /\ parses = 0
    /\ first = Unbound
    /\ cycles = 0

\* The environment replaces, removes or corrupts the storage file.
ChangeFile ==
    /\ \E f \in FileStates : f # file /\ file' = f
    /\ UNCHANGED <<cache, nav, pc, df, page, exc, out, ran, reads, scans, parses, first, cycles>>

\* The script is (re-)executed from the top with a fresh output surface and
\* fresh globals.  The first execution sees the radio at its default, the
\* first option; every later one is caused by the user choosing an option.
Rerun ==
    /\ pc = "idle"
    /\ cycles < MaxCycles
    /\ \E p \in PageIds :
          /\ cycles = 0 => p = Pages[1]
          /\ nav' = p
    /\ pc' = "top"
    /\ df' = Unbound
    /\ page' = NoPage
    /\ exc' = NoExc
    /\ out' = <<>>
    /\ ran' = {}
    /\ cycles' = cycles + 1
    /\ UNCHANGED <<file, cache, reads, scans, parses, first>>

\* Lines 13-18: page configuration, title and introduction.
Prelude ==
    /\ pc = "top"
    /\ out' = <<Elem("prelude", "title", "Netflix Content Strategy & Business Analysis"),
                Elem("prelude", "markdown", "This dashboard analyzes the Netflix content library")>>
    /\ pc' = "load"
    /\ UNCHANGED <<file, cache, nav, df, page, exc, ran, reads, scans, parses, first, cycles>>

\* Line 27 with a failure of the load swallowed on the spot, so that the
\* script goes on to the sidebar.
LoadDataUngated ==
    /\ pc = "load"
    /\ LET r == load_data(cache, file)
       IN  /\ cache' = r.cache
           /\ reads' = IF r.read THEN reads + 1 ELSE reads
           /\ scans' = IF r.read /\ file.status # "missing" THEN scans + 1 ELSE scans
           /\ parses' = IF r.read /\ r.raised = NoExc THEN parses + 1 ELSE parses
           /\ IF r.raised = NoExc
              THEN /\ df' = r.value
                   /\ first' = IF first = Unbound THEN r.value ELSE first
              ELSE UNCHANGED <<df, first>>
           /\ exc' = exc
           /\ pc' = "sidebar"
    /\ UNCHANGED <<file, nav, page, out, ran, cycles>>

\* Line 27: df = load_data(), inside the try.
LoadData ==
    /\ pc = "load"
    /\ LET r == load_data(cache, file)
       IN  /\ cache' = r.cache
           /\ reads' = IF r.read THEN reads + 1 ELSE reads
           /\ scans' = IF r.read /\ file.status # "missing" THEN scans + 1 ELSE scans
           /\ parses' = IF r.read /\ r.raised = NoExc THEN parses + 1 ELSE parses
           /\ IF r.raised = NoExc
              THEN /\ df' = r.value
                   /\ first' = IF first = Unbound THEN r.value ELSE first
                   /\ exc' = exc
                   /\ pc' = "sidebar"
              ELSE /\ exc' = r.raised
                   /\ pc' = "except"
                   /\ UNCHANGED <<df, first>>
    /\ UNCHANGED <<file, nav, page, out, ran, cycles>>

\* Lines 30-31: the sidebar header and page = st.sidebar.radio(...), which
\* returns the option the widget holds.
Sidebar ==
    /\ pc = "sidebar"
    /\ out' = out \o <<Elem("sidebar", "header", "Navigation"),
                       Elem("sidebar", "radio", "Go to")>>
    /\ page' = nav
    /\ pc' = "dispatch"
    /\ UNCHANGED <<file, cache, nav, df, exc, ran, reads, scans, parses, first, cycles>>

\* A call of the branch raised: control leaves the try for the except clause.
Raise(e) ==
    /\ exc' = e
    /\ pc' = "except"

\* Lines 33-44 with the first metric counted from the loaded table.
OverviewComputed ==
    /\ pc = "dispatch"
    /\ Branch(page) = "Overview"
    /\ ran' = ran \cup {"Overview"}
    /\ out' = out \o
          <<Elem("Overview", "header", "Dataset Overview"),
            Elem("Overview", "metric", <<"Total Titles", Len(df.rows)>>),
            Elem("Overview", "metric", <<"Movies", MovieCount>>),
            Elem("Overview", "metric", <<"TV Shows", ShowCount>>),
            Elem("Overview", "write", "Business Meaning of Data Overview"),
            Elem("Overview", "markdown", "Supply Balance / Data Integrity")>>
    /\ pc' = "overview_sample"
    /\ UNCHANGED <<file, cache, nav, df, page, exc, reads, scans, parses, first, cycles>>

\* Lines 33-44: Overview, up to the commentary.
Overview ==
    /\ pc = "dispatch"
    /\ Branch(page) = "Overview"
    /\ ran' = ran \cup {"Overview"}
    /\ out' = out \o
          <<Elem("Overview", "header", "Dataset Overview"),
            Elem("Overview", "metric", <<"Total Titles", TotalTitles>>),
            Elem("Overview", "metric", <<"Movies", MovieCount>>),
            Elem("Overview", "metric", <<"TV Shows", ShowCount>>),
            Elem("Overview", "write", "Business Meaning of Data Overview"),
            Elem("Overview", "markdown", "Supply Balance / Data Integrity")>>
    /\ pc' = "overview_sample"
    /\ UNCHANGED <<file, cache, nav, df, page, exc, reads, scans, parses, first, cycles>>

\* Lines 46-47 with the preview taken by truncating df itself.
OverviewSampleTruncating ==
    /\ pc = "overview_sample"
    /\ df' = head(df, PreviewRows)
    /\ \/ /\ out' = out \o <<Elem("Overview", "write", "Sample Data"),
                             Elem("Overview", "dataframe", df')>>
          /\ pc' = "done"
          /\ exc' = exc
       \/ /\ out' = Append(out, Elem("Overview", "write", "Sample Data"))
          /\ Raise("RenderError")
    /\ UNCHANGED <<file, cache, nav, page, ran, reads, scans, parses, first, cycles>>

\* Lines 46-47: the preview st.dataframe(df.head(10)), which may raise.
OverviewSample ==
    /\ pc = "overview_sample"
    /\ \/ /\ out' = out \o <<Elem("Overview", "write", "Sample Data"),
                             Elem("Overview", "dataframe", head(df, PreviewRows))>>
          /\ pc' = "done"
          /\ exc' = exc
       \/ /\ out' = Append(out, Elem("Overview", "write", "Sample Data"))
          /\ Raise("RenderError")
    /\ UNCHANGED <<file, cache, nav, df, page, ran, reads, scans, parses, first, cycles>>

\* Lines 49-59: Exploratory Analysis, the Movies vs TV Shows chart.
ExploratorySplit ==
    /\ pc = "dispatch"
    /\ Branch(page) = "Exploratory Analysis"
    /\ ran' = ran \cup {"Exploratory Analysis"}
    /\ LET pre == <<Elem("Exploratory Analysis", "header",
                         "Exploratory Data Analysis & Economic Insights"),
                    Elem("Exploratory Analysis", "write", "Movies vs TV Shows")>>
       IN  \/ /\ out' = out \o pre \o
                    <<Elem("Exploratory Analysis", "pyplot", TypeSplit),
                      Elem("Exploratory Analysis", "info", "Economic Principle")>>
              /\ pc' = "exploratory_genres"
              /\ exc' = exc
           \/ /\ out' = out \o pre
              /\ Raise("RenderError")
    /\ UNCHANGED <<file, cache, nav, df, page, reads, scans, parses, first, cycles>>

\* Lines 61-67: Exploratory Analysis, the Top 10 Genres chart.
ExploratoryGenres ==
    /\ pc = "exploratory_genres"
    /\ LET pre == <<Elem("Exploratory Analysis", "write", "Top 10 Genres")>>
       IN  \/ /\ out' = out \o pre \o
                    <<Elem("Exploratory Analysis", "pyplot", GenreData),
                      Elem("Exploratory Analysis", "info", "Strategy")>>
              /\ pc' = "exploratory_trend"
              /\ exc' = exc
           \/ /\ out' = out \o pre
              /\ Raise("RenderError")
    /\ UNCHANGED <<file, cache, nav, df, page, ran, reads, scans, parses, first, cycles>>

\* Lines 69-79: Exploratory Analysis, the release trend chart.
ExploratoryTrend ==
    /\ pc = "exploratory_trend"
    /\ LET pre == <<Elem("Exploratory Analysis", "write",
                         "Content Release Trend (Supply Trend)")>>
       IN  \/ /\ out' = out \o pre \o
                    <<Elem("Exploratory Analysis", "pyplot", ReleaseData),
                      Elem("Exploratory Analysis", "markdown", "Economic Interpretation")>>
              /\ pc' = "done"
              /\ exc' = exc
           \/ /\ out' = out \o pre
              /\ Raise("RenderError")
    /\ UNCHANGED <<file, cache, nav, df, page, ran, reads, scans, parses, first, cycles>>

\* Lines 81-102: Content Clustering.
ContentClustering ==
    /\ pc = "dispatch"
    /\ Branch(page) = "Content Clustering"
    /\ ran' = ran \cup {"Content Clustering"}
    /\ out' = out \o
          <<Elem("Content Clustering", "header", "K-Means Content Segmentation"),
            Elem("Content Clustering", "markdown", "Market Segmentation Results"),
            Elem("Content Clustering", "table", ClusterTable),
            Elem("Content Clustering", "markdown", "Strategic Business Insights")>>
    /\ pc' = "done"
    /\ UNCHANGED <<file, cache, nav, df, page, exc, reads, scans, parses, first, cycles>>

\* Lines 104-118: Duration Prediction.
DurationPrediction ==
    /\ pc = "dispatch"
    /\ Branch(page) = "Duration Prediction"
    /\ ran' = ran \cup {"Duration Prediction"}
    /\ out' = out \o
          <<Elem("Duration Prediction", "header", "Linear Regression: Rating vs Duration"),
            Elem("Duration Prediction", "metric", <<"R2 Score", R2Score>>),
            Elem("Duration Prediction", "metric", <<"Mean Squared Error", MeanSquaredError>>),
            Elem("Duration Prediction", "markdown", "Model Interpretation")>>
    /\ pc' = "done"
    /\ UNCHANGED <<file, cache, nav, df, page, exc, reads, scans, parses, first, cycles>>

\* Lines 120-139: Strategic Recommendations.
StrategicRecommendations ==
    /\ pc = "dispatch"
    /\ Branch(page) = "Strategic Recommendations"
    /\ ran' = ran \cup {"Strategic Recommendations"}
    /\ out' = out \o
          <<Elem("Strategic Recommendations", "header",
                 "Strategic Recommendations for Netflix"),
            Elem("Strategic Recommendations", "markdown", "Core economic recommendations")>>
    /\ pc' = "done"
    /\ UNCHANGED <<file, cache, nav, df, page, exc, reads, scans, parses, first, cycles>>

\* Lines 141-142: except Exception as e: st.error(f"Error loading dashboard: {e}").
\* An exception the clause does not match leaves the script.
Except ==
    /\ pc = "except"
    /\ IF IsException(exc)
       THEN /\ out' = Append(out, Elem("except", "error", <<"Error loading dashboard: ", exc>>))
            /\ exc' = NoExc
            /\ pc' = "done"
       ELSE /\ pc' = "crashed"
            /\ UNCHANGED <<out, exc>>
    /\ UNCHANGED <<file, cache, nav, df, page, ran, reads, scans, parses, first, cycles>>

\* The script has run to its end; the surface shows out until the next run.
Finish ==
    /\ pc = "done"
    /\ pc' = "idle"
    /\ UNCHANGED <<file, cache, nav, df, page, exc, out, ran, reads, scans, parses, first, cycles>>

\* Lines 30-31 with st.sidebar.radio replaced by a stub that returns any
\* value, one of the options or not.
Unrecognized == {"<None>", "", "overview"}

SidebarStub ==
    /\ pc = "sidebar"
    /\ out' = out \o <<Elem("sidebar", "header", "Navigation"),
                       Elem("sidebar", "radio", "Go to")>>
    /\ \E v \in PageIds \cup Unrecognized : page' = v
    /\ pc' = "dispatch"
    /\ UNCHANGED <<file, cache, nav, df, exc, ran, reads, scans, parses, first, cycles>>

\* Lines 33-120 when no test of the chain matches: there is no else, the
\* try block ends.
FallThrough ==
    /\ pc = "dispatch"
    /\ Branch(page) = "<no branch>"
    /\ pc' = "done"
    /\ UNCHANGED <<file, cache, nav, df, page, exc, out, ran, reads, scans, parses, first, cycles>>

Render ==
    \/ Overview
    \/ OverviewSample
    \/ ExploratorySplit
    \/ ExploratoryGenres
    \/ ExploratoryTrend
    \/ ContentClustering
    \/ DurationPrediction
    \/ StrategicRecommendations

Next ==
    \/ ChangeFile
    \/ Rerun
    \/ Prelude
    \/ LoadData
    \/ Sidebar
    \/ Render
    \/ Except
    \/ Finish

Spec == Init /\ [][Next]_vars

NextStub ==
    \/ ChangeFile
    \/ Rerun
    \/ Prelude
    \/ LoadData
    \/ SidebarStub
    \/ Render
    \/ FallThrough
    \/ Except
    \/ Finish

\* The script with the radio stubbed.
SpecStub == Init /\ [][NextStub]_vars

-----------------------------------------------------------------------------
(* What the output surface shows *)

Shown(kind) == SelectSeq(out, LAMBDA e : e.kind = kind)

Errors == Shown("error")

PageContent == SelectSeq(out, LAMBDA e : e.by \in PageIds)

Args(s) == [i \in 1..Len(s) |-> s[i].arg]

Ended == pc \in {"done", "idle"} /\ cycles > 0

BranchPcs == {"dispatch", "overview_sample", "exploratory_genres", "exploratory_trend"}

-----------------------------------------------------------------------------
(* C1 *)

\* C1 as stated: over the whole life of the process, storage is read and
\* parsed by load_data in at most one render cycle.
C1_ReadInAtMostOneCycle == scans <= 1

\* C1, amended: storage is read successfully at most once; once the memo
\* holds a table, no later call of load_data reads storage or changes the
\* memo, and every later call returns the memoized table.  (A load that
\* raised is not memoized: the next cycle reads storage again.)
C1_MemoizedAfterSuccess ==
    [][ /\ parses' <= 1
        /\ cache # {} => /\ reads' = reads
                         /\ scans' = scans
                         /\ cache' = cache
                         /\ (df' # Unbound => df' \in cache) ]_vars

\* A later cycle was served from the memo although the file has changed.
C1_Witness ==
    /\ cycles >= 2
    /\ pc = "sidebar"
    /\ reads = 1
    /\ parses = 1
    /\ df \in cache
    /\ file.status = "ok"
    /\ file.table # df

-----------------------------------------------------------------------------
(* C2 *)

\* C2: a cycle whose load failed ends with exactly one error message, with
\* no element emitted by a page branch, with no branch entered, and with the
\* exception handled (the script ran to its end, it did not crash).
C2_LoadFailureShowsOneError ==
    /\ pc # "crashed"
    /\ (Ended /\ df = Unbound) =>
          /\ Len(Errors) = 1
          /\ out[Len(out)].kind = "error"
          /\ PageContent = <<>>
          /\ ran = {}
          /\ exc = NoExc

\* A cycle over a malformed file has ended with its error message.
C2_Witness ==
    /\ pc = "done"
    /\ df = Unbound
    /\ Len(Errors) = 1
    /\ Errors[1].arg[2] = "ParserError"

-----------------------------------------------------------------------------
(* C3 *)

\* C3 as stated: every render cycle ends with exactly one page branch
\* executed, the one named by page.
C3_ExactlyOneBranchEveryCycle ==
    Ended => Cardinality(ran) = 1 /\ ran = {nav}

\* C3, amended: at most one branch executes in a cycle and every element of
\* page content comes from the branch named by page; a cycle whose load
\* succeeded ends with exactly that one branch executed, a cycle whose load
\* failed ends with none.
C3_OneBranchWhenLoaded ==
    /\ Cardinality(ran) <= 1
    /\ ran \subseteq {page}
    /\ \A i \in 1..Len(out) : out[i].by \in PageIds => out[i].by = page
    /\ (Ended /\ df # Unbound) => ran = {page} /\ page = nav
    /\ (Ended /\ df = Unbound) => ran = {}

\* A later cycle has dispatched to the selected page.
C3_Witness ==
    /\ pc = "done"
    /\ cycles >= 2
    /\ page = "Duration Prediction"
    /\ ran = {"Duration Prediction"}
    /\ PageContent # <<>>

-----------------------------------------------------------------------------
(* C4 *)

\* C4: a cycle in which a failure was caught shows exactly one error message
\* and no page content.
C4_NoPartialPage ==
    (Ended /\ Errors # <<>>) => Len(Errors) = 1 /\ PageContent = <<>>

-----------------------------------------------------------------------------
(* C5 *)

\* C5: when the load succeeded and page holds a value outside the five
\* identifiers, nothing is raised, no error message is shown, no branch is
\* entered and no page content is emitted; the cycle runs to its end.
C5_UnrecognizedIsNeutral ==
    (df # Unbound /\ page \notin PageIds \cup {NoPage}) =>
          /\ ran = {}
          /\ exc = NoExc
          /\ Errors = <<>>
          /\ PageContent = <<>>
          /\ pc \in {"dispatch", "done", "idle"}

\* A cycle with an unrecognized value has ended.
C5_Witness ==
    /\ pc = "done"
    /\ df # Unbound
    /\ page = "overview"
    /\ Len(out) = 4

-----------------------------------------------------------------------------
(* C6 *)

\* C6: no step of a page branch changes the memoized Dataset, df, page or the
\* radio's value; no step of the script writes the storage file; a populated
\* memo is never updated or deleted.
C6_RenderersAreReadOnly ==
    [][ /\ pc \in BranchPcs => /\ cache' = cache
                               /\ df' = df
                               /\ page' = page
                               /\ nav' = nav
        /\ pc' # pc => file' = file
        /\ cache # {} => cache' = cache ]_vars

\* Overview has shown a preview shorter than the table it was taken from.
C6_Witness ==
    /\ pc = "done"
    /\ page = "Overview"
    /\ Len(df.rows) > PreviewRows
    /\ Len(Shown("dataframe")) = 1
    /\ Len(Shown("dataframe")[1].arg.rows) = PreviewRows
    /\ df \in cache

-----------------------------------------------------------------------------
(* C7 *)

\* C7: whatever table was loaded, Overview shows exactly the three metrics
\* 8706, 6128, 2578 and Duration Prediction exactly the two metrics 0.1407
\* and 2264.50; the other pages show no metric; the one element that
\* depends on the table is Overview's preview, its first 10 rows.
C7_MetricsAreLiterals ==
    (Ended /\ df # Unbound) =>
          /\ page = "Overview" =>
                Args(Shown("metric")) =
                    << <<"Total Titles", 8706>>, <<"Movies", 6128>>, <<"TV Shows", 2578>> >>
          /\ page = "Duration Prediction" =>
                Args(Shown("metric")) =
                    << <<"R2 Score", "0.1407">>, <<"Mean Squared Error", "2264.50">> >>
          /\ page \notin {"Overview", "Duration Prediction"} => Shown("metric") = <<>>
          /\ \A i \in 1..Len(out) :
                out[i].kind = "dataframe" =>
                    /\ out[i].by = "Overview"
                    /\ out[i].arg.columns = df.columns
                    /\ out[i].arg.rows = [k \in 1..Min(10, Len(df.rows)) |-> df.rows[k]]

\* Overview has shown its metrics over a table of 9 rows.
C7_Witness ==
    /\ pc = "done"
    /\ page = "Overview"
    /\ Len(df.rows) = 9
    /\ Len(Shown("metric")) = 3
    /\ Len(Shown("dataframe")) = 1

-----------------------------------------------------------------------------
(* C8 *)

Positions(s, v) == {i \in 1..Len(s) : s[i] = v}

\* C8: after a successful load, Content Clustering shows one table of
\* exactly 4 rows, Cluster 0 to Cluster 3, whose Segment column reads
\* Mainstream Movies, Recent Indie/Short Films, Modern Episodic Content,
\* Classic Library Content, whatever the loaded table.
C8_ClusterTableIsFixed ==
    (Ended /\ df # Unbound /\ page = "Content Clustering") =>
          /\ Len(Shown("table")) = 1
          /\ LET t == Shown("table")[1].arg
             IN  /\ t.index = <<"Cluster 0", "Cluster 1", "Cluster 2", "Cluster 3">>
                 /\ Len(t.data) = 4
                 /\ Cardinality(Positions(t.columns, "Segment")) = 1
                 /\ LET c == CHOOSE i \in Positions(t.columns, "Segment") : TRUE
                    IN  [r \in 1..Len(t.data) |-> t.data[r][c]] =
                            <<"Mainstream Movies", "Recent Indie/Short Films",
                              "Modern Episodic Content", "Classic Library Content">>

\* Content Clustering has shown its table over a non-empty Dataset.
C8_Witness ==
    /\ pc = "done"
    /\ page = "Content Clustering"
    /\ Len(df.rows) > 0
    /\ Len(Shown("table")) = 1

-----------------------------------------------------------------------------
(* C9 *)

\* C9: every call of load_data that returns, returns the table the first
\* successful call returned (same rows, same column set), whether or not
\* the source has changed in between; the call changes nothing but the
\* memo, and the memo only when it was empty.
C9_LoadIsIdempotent ==
    [][ (pc = "load" /\ pc' # "load") =>
            /\ file' = file /\ out' = out /\ nav' = nav /\ page' = page /\ ran' = ran
            /\ cache # {} => cache' = cache
            /\ df' # Unbound => /\ first # Unbound => df' = first
                                /\ cache' = {df'}
                                /\ Len(df'.rows) = Len(first'.rows)
                                /\ df'.columns = first'.columns ]_vars

\* A second call has returned the first call's table after the file was
\* removed.
C9_Witness ==
    /\ cycles >= 2
    /\ pc = "sidebar"
    /\ reads = 1
    /\ df = first
    /\ file.status = "missing"

-----------------------------------------------------------------------------
(* C10 *)

\* C10: the radio is read and a page branch runs only after load_data has
\* returned in the same cycle; a cycle whose load failed ends with page
\* never assigned and with the title, the introduction and the error
\* message as its whole output, whatever the radio holds.
C10_PagesGatedOnLoad ==
    /\ (pc \in BranchPcs \cup {"sidebar"} \/ page # NoPage \/ ran # {}) => df # Unbound
    /\ (Ended /\ df = Unbound) =>
          /\ page = NoPage
          /\ Len(out) = 3
          /\ out[1].by = "prelude" /\ out[2].by = "prelude" /\ out[3].by = "except"

\* A cycle with Strategic Recommendations selected has ended on a failed load.
C10_Witness ==
    /\ pc = "done"
    /\ nav = "Strategic Recommendations"
    /\ df = Unbound
    /\ page = NoPage
    /\ Len(Errors) = 1

====
